---- MODULE Spec2Model ----
(***************************************************************************)
(* The plotting scripts of epidemic-percolation as a state machine.        *)
(*                                                                         *)
(* Each script is a straight-line program: create the output directory,    *)
(* read the table, then call plotting functions from its main loop.  The   *)
(* state is the file system the script sees (dirs, files), the table (df), *)
(* pyplot's figures (figs, drawn) and the position of the interpreter      *)
(* (pc, calls, todo).  An uncaught exception ends the run (pc = "aborted", *)
(* err names it).                                                          *)
(*                                                                         *)
(* Numbers: densities, defector ratios, temptations and metric values are  *)
(* kept in tenths (density 0.5 is 5, temptation 1.7 is 17).  A series of   *)
(* floats is a record [v, den]: the values v[i] / den.                     *)
(***************************************************************************)
EXTENDS Integers, Sequences, FiniteSets, TLC

VARIABLES
    script,      \* the script being run
    dirs,        \* directories that exist in the working directory
    csv,         \* the rows of the input file (phase_diagram_results.csv/.json)
    df,          \* the module-level DataFrame, <<>> until it is read
    loads,       \* how many times the input file was read
    calls,       \* the calls the main loop still has to make
    pc,          \* position of the interpreter
    todo,        \* the items the running function's loop still has to visit
    thresholds,  \* plot_threshold_curves' list of (ratio, thresh)
    drawn,       \* what was drawn on the current figure
    figs,        \* every figure created: [open, saved, by]
    files,       \* every path written by savefig, in order
    err          \* the exception that ended the run, "" if none

vars == <<script, dirs, csv, df, loads, calls, pc, todo, thresholds, drawn,
          figs, files, err>>

\* Python's None; a value v that may be None is kept as <<v>>.
None == <<>>

-----------------------------------------------------------------------------
(* Bounds of the model.                                                    *)

\* Longest input table, in rows.
MaxRows == 3
\* Largest number of distinct temptation values in a table read by
\* plot_phase_transitions.
MaxTemptations == 7

-----------------------------------------------------------------------------
(* Sequences and tables (pandas / numpy as the scripts use them).          *)

Range(s) == {s[i] : i \in 1..Len(s)}

\* sorted(S): the elements of a set of integers in ascending order.
RECURSIVE Sorted(_)
Sorted(S) ==
    IF S = {} THEN <<>>
    ELSE LET m == CHOOSE a \in S : \A b \in S : a <= b
         IN  <<m>> \o Sorted(S \ {m})

\* Series.unique(): the distinct values in order of first appearance.
RECURSIVE Unique(_)
Unique(s) ==
    IF s = <<>> THEN <<>>
    ELSE LET u == Unique(SubSeq(s, 1, Len(s) - 1))
             a == s[Len(s)]
         IN  IF a \in Range(u) THEN u ELSE Append(u, a)

\* df[col].values: one column, in row order.
Column(rows, col) == [i \in 1..Len(rows) |-> rows[i][col]]

\* df[(df[c1] == v1)]: the rows that pass, in row order.
Where1(rows, c1, v1) == SelectSeq(rows, LAMBDA r : r[c1] = v1)

\* df[(df[c1] == v1) & (df[c2] == v2)]
Where2(rows, c1, v1, c2, v2) ==
    SelectSeq(rows, LAMBDA r : r[c1] = v1 /\ r[c2] = v2)

\* DataFrame.pivot raises ValueError ("Index contains duplicate entries,
\* cannot reshape") when two rows share (index, columns).
PivotDuplicates(rows, index, columns) ==
    \E i, j \in 1..Len(rows) :
        /\ i < j
        /\ rows[i][index] = rows[j][index]
        /\ rows[i][columns] = rows[j][columns]

\* DataFrame.pivot(index, columns, values): the table's index and columns
\* are sorted ascending; cell (a, b) holds the value of the row with
\* index a and column b, NaN when there is none.  A cell is <<value>>, and
\* <<>> for NaN.
NaN == <<>>
Pivot(rows, index, columns, values) ==
    LET idx  == Sorted(Range(Column(rows, index)))
        cols == Sorted(Range(Column(rows, columns)))
        Cell(a, b) ==
            IF \E k \in 1..Len(rows) : rows[k][index] = a /\ rows[k][columns] = b
            THEN LET k == CHOOSE k \in 1..Len(rows) :
                               rows[k][index] = a /\ rows[k][columns] = b
                 IN  <<rows[k][values]>>
            ELSE NaN
    IN  [index   |-> idx,
         columns |-> cols,
         values  |-> [i \in 1..Len(idx) |->
                         [j \in 1..Len(cols) |-> Cell(idx[i], cols[j])]]]

-----------------------------------------------------------------------------
(* scipy.ndimage.gaussian_filter1d(y, sigma=1): correlation with the       *)
(* Gaussian kernel of radius int(4 * sigma + 0.5) = 4, the series extended *)
(* by reflection about its edges (mode='reflect': d c b a | a b c d | d c  *)
(* b a).  The normalised weights exp(-k^2/2) / sum are kept to four        *)
(* decimals, as integers over KernelSum; the result's denominator is the   *)
(* argument's times KernelSum.                                             *)

Kernel == <<3989, 2420, 540, 44, 1>>      \* weights of offsets 0, 1, 2, 3, 4
Radius == Len(Kernel) - 1
KernelSum == Kernel[1] + 2 * (Kernel[2] + Kernel[3] + Kernel[4] + Kernel[5])

Abs(k) == IF k < 0 THEN -k ELSE k

\* The index (1-based) that position i of the reflected extension reads.
Reflect(i, n) ==
    LET j == (i - 1) % (2 * n)
    IN  IF j < n THEN j + 1 ELSE 2 * n - j

RECURSIVE SumOver(_, _)
SumOver(S, f) ==
    IF S = {} THEN 0
    ELSE LET k == CHOOSE k \in S : TRUE
         IN  f[k] + SumOver(S \ {k}, f)

gaussian_filter1d(y) ==
    LET n == Len(y.v)
    IN  [v   |-> [i \in 1..n |->
                    SumOver(-Radius..Radius,
                            [k \in -Radius..Radius |->
                                Kernel[Abs(k) + 1] * y.v[Reflect(i + k, n)]])],
         den |-> y.den * KernelSum]

\* The threshold 0.5 every caller passes, as ThresholdNum / ThresholdDen.
ThresholdNum == 1
ThresholdDen == 2
Half == [num |-> ThresholdNum, den |-> ThresholdDen]

\* np.where(y >= threshold)[0]: the indices that pass, ascending.
WhereGE(y, threshold) ==
    Sorted({i \in 1..Len(y.v) : y.v[i] * threshold.den >= threshold.num * y.den})

\* find_threshold(x, y, threshold): smooths y, then returns x at the first
\* index whose smoothed value is at or above the threshold; the IndexError
\* of [0][0] on an empty index array is caught and None returned.
find_threshold_argmax(x, y, threshold) ==
    LET idx == WhereGE(gaussian_filter1d(y), threshold)
    IN  IF x = <<>> THEN None
        ELSE IF idx = <<>> THEN <<x[1]>> ELSE <<x[idx[1]]>>

find_threshold_last_index(x, y, threshold) ==
    LET idx == WhereGE(gaussian_filter1d(y), threshold)
    IN  IF idx = <<>> THEN None ELSE <<x[idx[Len(idx)]]>>

find_threshold(x, y, threshold) ==
    LET y_smooth == gaussian_filter1d(y)
        idx      == WhereGE(y_smooth, threshold)
    IN  IF idx = <<>> THEN None ELSE <<x[idx[1]]>>

-----------------------------------------------------------------------------
(* The scripts, their output directories and their metric tables.          *)

ThresholdAnalysis     == "plot_threshold_analysis.py"
ImprovedVisualization == "plot_improved_visualization.py"
PhaseDiagrams         == "plot_phase_diagrams.py"
PhaseTransitions      == "plot_phase_transitions.py"
CombinedTransitions   == "plot_combined_transitions.py"

Scripts == {ThresholdAnalysis, ImprovedVisualization, PhaseDiagrams,
            PhaseTransitions, CombinedTransitions}

\* output_dir = Path("..."), set at the top of each script.
output_dir(s) ==
    CASE s = ThresholdAnalysis     -> <<"threshold_analysis">>
      [] s = ImprovedVisualization -> <<"improved_visualizations">>
      [] s = PhaseDiagrams         -> <<"phase_diagrams">>
      [] s = PhaseTransitions      -> <<"phase_transition_plots">>
      [] s = CombinedTransitions   -> <<"combined_phase_plots">>

\* Path / name: a path is the sequence of its components.
PathJoin(dir, name) == Append(dir, name)

\* The metrics dict of each script, in insertion order.  A title is kept as
\* its words, for the test 'Percolation' in title.
metrics(s) ==
    CASE s = ThresholdAnalysis ->
           << [metric |-> "defectorPercolationProb",
               title  |-> <<"Defector", "Percolation", "Probability">>],
              [metric |-> "geometricPercolationProb",
               title  |-> <<"Geometric", "Percolation", "Probability">>],
              [metric |-> "avgLargestClusterFrac",
               title  |-> <<"Largest", "Defector", "Cluster", "Fraction">>],
              [metric |-> "avgCompliance",
               title  |-> <<"Final", "Compliance", "Rate">>] >>
      [] s = ImprovedVisualization ->
           << [metric |-> "geometricPercolationProb",
               title  |-> <<"Geometric", "Percolation", "Probability">>],
              [metric |-> "defectorPercolationProb",
               title  |-> <<"Defector", "Percolation", "Probability">>],
              [metric |-> "avgLargestClusterFrac",
               title  |-> <<"Largest", "Cluster", "Fraction">>],
              [metric |-> "avgCompliance",
               title  |-> <<"Final", "Compliance", "Rate">>] >>
      [] s = PhaseDiagrams ->
           << [metric |-> "avgCompliance",
               title  |-> <<"Final", "Compliance", "Rate">>],
              [metric |-> "defectorPercolationProb",
               title  |-> <<"Defector", "Percolation", "Probability">>],
              [metric |-> "avgLargestClusterFrac",
               title  |-> <<"Largest", "Defector", "Cluster", "Fraction">>],
              [metric |-> "geometricPercolationProb",
               title  |-> <<"Geometric", "Percolation", "Probability">>] >>
      [] OTHER ->
           << [metric |-> "avg_compliance",
               title  |-> <<"Average", "Compliance">>],
              [metric |-> "defector_percolation_prob",
               title  |-> <<"Defector", "Percolation", "Probability">>],
              [metric |-> "geometric_percolation_prob",
               title  |-> <<"Geometric", "Percolation", "Probability">>],
              [metric |-> "avg_largest_cluster_frac",
               title  |-> <<"Average", "Largest", "Cluster", "Fraction">>] >>

\* 'Percolation' in title
HasPercolation(title) == "Percolation" \in Range(title)

\* metric.endswith('Prob')
EndsWithProb(metric) ==
    metric \in {"geometricPercolationProb", "defectorPercolationProb"}

\* f'{t}' of a float kept in tenths: 17 prints as 1.7, 20 as 2.0.
FormatTenths(t) == ToString(t \div 10) \o "." \o ToString(t % 10)

\* A call of the main loop: the function, its metric and title, and the
\* fixed parameter value (t_value, n_value, T_value) where it takes one.
Call(fn, m, arg) == [fn |-> fn, metric |-> m.metric, title |-> m.title, arg |-> arg]

RECURSIVE Flatten(_)
Flatten(ss) == IF ss = <<>> THEN <<>> ELSE Head(ss) \o Flatten(Tail(ss))

\* The temptation plot_threshold_curves filters by, and the defector ratio
\* plot_density_curves and plot_phase_space filter by.
ThresholdTemptation == 17
FixedDefectorRatio == 5

\* Lines 141-154 of plot_threshold_analysis.py: per metric, the threshold
\* curves when the title mentions percolation, then the density curves and
\* the phase space.
ThresholdAnalysisCalls ==
    LET ms == metrics(ThresholdAnalysis)
    IN  Flatten([i \in 1..Len(ms) |->
            (IF HasPercolation(ms[i].title)
             THEN <<Call("plot_threshold_curves", ms[i], ThresholdTemptation)>>
             ELSE <<>>)
            \o <<Call("plot_density_curves", ms[i], FixedDefectorRatio),
                 Call("plot_phase_space", ms[i], FixedDefectorRatio)>>])

-----------------------------------------------------------------------------
(* pyplot's figures.                                                       *)

\* plt.gcf(): the figure created last among those still open (0: none).
CurrentFigure ==
    LET open == {k \in 1..Len(figs) : figs[k].open}
    IN  IF open = {} THEN 0 ELSE CHOOSE k \in open : \A j \in open : j <= k

\* plt.figure(...) / plt.subplots(...): a new figure, which becomes current.
NewFigure(by) == Append(figs, [open |-> TRUE, saved |-> 0, by |-> by])

\* The function whose figure is the one created last.
DrawnBy(fn) == figs # <<>> /\ figs[Len(figs)].by.fn = fn

\* The drawing events of one kind on the current figure.
Events(kind) == {k \in 1..Len(drawn) : drawn[k].kind = kind}

\* An uncaught exception: the traceback is printed and the script ends.
Abort(exception) ==
    /\ pc' = "aborted"
    /\ err' = exception

\* The exceptions the libraries raise on the tables of the model.
DuplicateEntries ==
    "ValueError: Index contains duplicate entries, cannot reshape"
ZeroSizeArray ==
    "ValueError: zero-size array to reduction operation fmin which has no identity"
NaNLimits == "ValueError: Axis limits cannot be NaN or Inf"
GradientTooShort ==
    "ValueError: Shape of array too small to calculate a numerical gradient"
ContourTooSmall == "TypeError: Input z must be at least a (2, 2) shaped array"
IndexOutOfBounds == "IndexError: index is out of bounds for axis 0"
DirectoryMissing == "FileNotFoundError: No such file or directory"
DirectoryExists == "FileExistsError: File exists"

-----------------------------------------------------------------------------
(* Module level: mkdir, read the table, the main loop's end.               *)

\* output_dir.mkdir(exist_ok=True): an existing directory is not an error.
Mkdir_without_exist_ok ==
    /\ pc = "mkdir"
    /\ IF output_dir(script) \in dirs
       THEN /\ Abort(DirectoryExists)
            /\ dirs' = dirs
       ELSE /\ dirs' = dirs \cup {output_dir(script)}
            /\ pc' = "read"
            /\ err' = err
    /\ UNCHANGED <<script, csv, df, loads, calls, todo, thresholds, drawn,
                   figs, files>>

Mkdir ==
    /\ pc = "mkdir"
    /\ dirs' = dirs \cup {output_dir(script)}
    /\ pc' = "read"
    /\ UNCHANGED <<script, csv, df, loads, calls, todo, thresholds, drawn,
                   figs, files, err>>

\* df = pd.read_csv(...) / pd.DataFrame(json.load(f)['results'])
ReadTable ==
    /\ pc = "read"
    /\ df' = csv
    /\ loads' = loads + 1
    /\ pc' = "main"
    /\ UNCHANGED <<script, dirs, csv, calls, todo, thresholds, drawn, figs,
                   files, err>>

\* The main loop has made its last call: the closing print.
Finish ==
    /\ pc = "main"
    /\ calls = <<>>
    /\ pc' = "done"
    /\ UNCHANGED <<script, dirs, csv, df, loads, calls, todo, thresholds,
                   drawn, figs, files, err>>

-----------------------------------------------------------------------------
(* savefig and close, shared by every plotting function.                   *)

\* The file name each function formats for its figure.
filename_without_value(c) ==
    CASE c.fn = "plot_metric_vs_defector_ratio" ->
           c.metric \o "_vs_defector_ratio.png"
      [] OTHER -> c.fn \o "_" \o c.metric \o ".png"

filename(c) ==
    CASE c.fn = "plot_threshold_curves" ->
           "threshold_" \o c.metric \o "_T1.7.png"
      [] c.fn = "plot_density_curves" ->
           "density_curves_" \o c.metric \o "_DR0.5.png"
      [] c.fn = "plot_phase_space" ->
           "phase_space_" \o c.metric \o "_DR0.5.png"
      [] c.fn = "plot_subplots_by_groups" ->
           "subplots_" \o c.metric \o "_T" \o FormatTenths(c.arg) \o ".png"
      [] c.fn = "plot_heatmap" ->
           "heatmap_" \o c.metric \o "_T" \o FormatTenths(c.arg) \o ".png"
      [] c.fn = "plot_3d_surface" ->
           "surface3d_" \o c.metric \o "_T" \o FormatTenths(c.arg) \o ".png"
      [] c.fn = "plot_density_phase_diagram" ->
           "phase_density_" \o c.metric \o "_T" \o FormatTenths(c.arg) \o ".png"
      [] c.fn = "plot_temptation_phase_diagram" ->
           "phase_temptation_" \o c.metric \o "_N" \o ToString(c.arg) \o ".png"
      [] c.fn = "plot_phase_diagram_heatmaps" ->
           "phase_diagram_" \o c.metric \o ".png"
      [] c.fn = "plot_metric_vs_defector_ratio" ->
           c.metric \o "_vs_defector_ratio.png"
      [] c.fn = "plot_combined_view" ->
           "combined_" \o c.metric \o "_T" \o FormatTenths(c.arg) \o ".png"

\* plt.savefig(output_dir / filename, ...): writes the current figure; the
\* directory must exist.
Savefig ==
    /\ pc = "savefig"
    /\ LET path == PathJoin(output_dir(script), filename(Head(calls)))
       IN  IF SubSeq(path, 1, Len(path) - 1) \in dirs /\ CurrentFigure # 0
           THEN /\ files' = Append(files, path)
                /\ figs' = [figs EXCEPT ![CurrentFigure].saved = @ + 1]
                /\ pc' = "close"
                /\ err' = err
           ELSE /\ Abort(DirectoryMissing)
                /\ UNCHANGED <<files, figs>>
    /\ UNCHANGED <<script, dirs, csv, df, loads, calls, todo, thresholds, drawn>>

\* plt.close(): closes the current figure; the function returns to the
\* main loop.
Close ==
    /\ pc = "close"
    /\ figs' = IF CurrentFigure = 0 THEN figs
               ELSE [figs EXCEPT ![CurrentFigure].open = FALSE]
    /\ calls' = Tail(calls)
    /\ pc' = "main"
    /\ UNCHANGED <<script, dirs, csv, df, loads, todo, thresholds, drawn,
                   files, err>>

Calling(fn) == pc = "main" /\ calls # <<>> /\ Head(calls).fn = fn

-----------------------------------------------------------------------------
(* plot_threshold_analysis.py                                              *)

\* data[metric].values as a series of tenths.
Values(data, metric) == [v |-> Column(data, metric), den |-> 10]

\* Lines 27-33 of plot_threshold_curves: the figure, the sorted defector
\* ratios, the empty list of thresholds.
PlotThresholdCurves ==
    /\ Calling("plot_threshold_curves")
    /\ figs' = NewFigure(Head(calls))
    /\ drawn' = <<>>
    /\ thresholds' = <<>>
    /\ LET defector_ratios == Sorted(Range(Column(df, "defectorRatio")))
       IN  /\ todo' = defector_ratios
           /\ pc' = IF defector_ratios = <<>> THEN "savefig"
                    ELSE "plot_threshold_curves.loop"
    /\ UNCHANGED <<script, dirs, csv, df, loads, calls, files, err>>

\* What one pass of the loop over the defector ratios (lines 35-51) draws
\* and records for `ratio`.
ThresholdCurveOf(ratio, metric, threshold) ==
    LET data     == Where2(df, "defectorRatio", ratio,
                               "temptation", ThresholdTemptation)
        x        == Column(data, "density")
        y        == Values(data, metric)
        y_smooth == gaussian_filter1d(y)
        thresh   == find_threshold(x, y_smooth, threshold)
    IN  [x |-> x, y |-> y, y_smooth |-> y_smooth, thresh |-> thresh]

ThresholdCurvesRatio ==
    /\ pc = "plot_threshold_curves.loop"
    /\ todo # <<>>
    /\ LET ratio == Head(todo)
           c     == ThresholdCurveOf(ratio, Head(calls).metric, Half)
       IN  /\ drawn' = drawn
                \o << [kind |-> "line", of |-> ratio, x |-> c.x, y |-> c.y_smooth],
                      [kind |-> "points", of |-> ratio, x |-> c.x, y |-> c.y] >>
                \o (IF c.thresh # None
                    THEN << [kind |-> "axvline", of |-> ratio, x |-> c.thresh[1]],
                            [kind |-> "marker", of |-> ratio, x |-> c.thresh[1]] >>
                    ELSE <<>>)
           /\ thresholds' = IF c.thresh # None
                            THEN Append(thresholds, <<ratio, c.thresh[1]>>)
                            ELSE thresholds
    /\ todo' = Tail(todo)
    /\ pc' = IF Tail(todo) = <<>> THEN "savefig" ELSE pc
    /\ UNCHANGED <<script, dirs, csv, df, loads, calls, figs, files, err>>

\* Lines 68-72 of plot_density_curves: the figure and the sorted
\* temptation values.
PlotDensityCurves ==
    /\ Calling("plot_density_curves")
    /\ figs' = NewFigure(Head(calls))
    /\ drawn' = <<>>
    /\ LET temptation_values == Sorted(Range(Column(df, "temptation")))
       IN  /\ todo' = temptation_values
           /\ pc' = IF temptation_values = <<>> THEN "savefig"
                    ELSE "plot_density_curves.loop"
    /\ UNCHANGED <<script, dirs, csv, df, loads, calls, thresholds, files, err>>

\* One pass of the loop over the temptation values (lines 74-89).
\* np.gradient(y_smooth, x) raises ValueError on a series of fewer than
\* two points.  The peak markers of find_peaks are not recorded.
DensityCurvesTemptation ==
    /\ pc = "plot_density_curves.loop"
    /\ todo # <<>>
    /\ LET t        == Head(todo)
           data     == Where2(df, "defectorRatio", FixedDefectorRatio,
                                  "temptation", t)
           x        == Column(data, "density")
           y        == Values(data, Head(calls).metric)
           y_smooth == gaussian_filter1d(y)
       IN  /\ drawn' = drawn
                \o << [kind |-> "line", of |-> t, x |-> x, y |-> y_smooth],
                      [kind |-> "points", of |-> t, x |-> x, y |-> y] >>
           /\ IF Len(x) < 2
              THEN /\ Abort(GradientTooShort)
                   /\ todo' = todo
              ELSE /\ todo' = Tail(todo)
                   /\ pc' = IF Tail(todo) = <<>> THEN "savefig" ELSE pc
                   /\ err' = err
    /\ UNCHANGED <<script, dirs, csv, df, loads, calls, thresholds, figs, files>>

\* Line 104 of plot_phase_space: the figure, created before the pivot.
PlotPhaseSpace ==
    /\ Calling("plot_phase_space")
    /\ figs' = NewFigure(Head(calls))
    /\ drawn' = <<>>
    /\ pc' = "plot_phase_space.pivot"
    /\ UNCHANGED <<script, dirs, csv, df, loads, calls, todo, thresholds,
                   files, err>>

\* Lines 107-120: the pivot of the rows with defector ratio 0.5 and its
\* image.  pivot raises ValueError on duplicate cells; imshow raises
\* ValueError on the NaN extent of an empty table.
PhaseSpacePivot ==
    /\ pc = "plot_phase_space.pivot"
    /\ LET rows == Where1(df, "defectorRatio", FixedDefectorRatio)
       IN  IF PivotDuplicates(rows, "temptation", "density")
           THEN /\ Abort(DuplicateEntries)
                /\ drawn' = drawn
           ELSE IF rows = <<>>
           THEN /\ Abort(NaNLimits)
                /\ drawn' = drawn
           ELSE /\ drawn' = Append(drawn,
                      [kind |-> "imshow",
                       data |-> Pivot(rows, "temptation", "density",
                                      Head(calls).metric)])
                /\ pc' = "savefig"
                /\ err' = err
    /\ UNCHANGED <<script, dirs, csv, df, loads, calls, todo, thresholds,
                   figs, files>>

-----------------------------------------------------------------------------
(* plot_improved_visualization.py                                          *)

\* t_value=1.7, the default of the three functions; the main loop passes
\* no other.
DefaultTValue == 17

\* Lines 126-136: per metric, the grouped subplots, the heatmap, the
\* surface.
ImprovedVisualizationCalls ==
    LET ms == metrics(ImprovedVisualization)
    IN  Flatten([i \in 1..Len(ms) |->
            <<Call("plot_subplots_by_groups", ms[i], DefaultTValue),
              Call("plot_heatmap", ms[i], DefaultTValue),
              Call("plot_3d_surface", ms[i], DefaultTValue)>>])

\* low, mid, high (lines 22-25), in tenths.
groups ==
    << [name |-> "Low",    ratios |-> <<1, 2, 3>>],
       [name |-> "Medium", ratios |-> <<4, 5, 6>>],
       [name |-> "High",   ratios |-> <<7, 8, 9>>] >>

\* Lines 42-44: the inline scan of the smoothed series for the first value
\* at or above 0.5.
first_crossing(x, y_smooth) ==
    LET thresh_idx == WhereGE(y_smooth, Half)
    IN  IF Len(thresh_idx) > 0 THEN <<x[thresh_idx[1]]>> ELSE None

\* Lines 32-44: the curve of one defector ratio and, for a probability
\* metric, its threshold line.
SubplotCurveOf(ratio, metric, t_value) ==
    LET data     == Where1(df, "temptation", t_value)
        subset   == Where1(data, "defectorRatio", ratio)
        x        == Column(subset, "density")
        y        == Values(subset, metric)
        y_smooth == gaussian_filter1d(y)
    IN  [x |-> x, y |-> y, y_smooth |-> y_smooth,
         thresh |-> IF EndsWithProb(metric) THEN first_crossing(x, y_smooth)
                    ELSE None]

\* Lines 19-28: the filter and the figure of three panels.
PlotSubplotsByGroups ==
    /\ Calling("plot_subplots_by_groups")
    /\ figs' = NewFigure(Head(calls))
    /\ drawn' = <<>>
    /\ todo' = groups
    /\ pc' = "plot_subplots_by_groups.loop"
    /\ UNCHANGED <<script, dirs, csv, df, loads, calls, thresholds, files, err>>

\* One pass of the outer loop (lines 30-50): the three ratios of a group,
\* drawn on the group's panel.
SubplotsGroup ==
    /\ pc = "plot_subplots_by_groups.loop"
    /\ todo # <<>>
    /\ LET g == Head(todo)
           Curve(ratio) ==
               LET c == SubplotCurveOf(ratio, Head(calls).metric, Head(calls).arg)
               IN  << [kind |-> "line", of |-> ratio, ax |-> g.name,
                       x |-> c.x, y |-> c.y_smooth],
                      [kind |-> "points", of |-> ratio, ax |-> g.name,
                       x |-> c.x, y |-> c.y] >>
                   \o (IF c.thresh # None
                       THEN << [kind |-> "axvline", of |-> ratio, ax |-> g.name,
                                x |-> c.thresh[1]] >>
                       ELSE <<>>)
       IN  drawn' = drawn \o Flatten([i \in 1..Len(g.ratios) |-> Curve(g.ratios[i])])
    /\ todo' = Tail(todo)
    /\ pc' = IF Tail(todo) = <<>> THEN "savefig" ELSE pc
    /\ UNCHANGED <<script, dirs, csv, df, loads, calls, thresholds, figs,
                   files, err>>

\* sns.heatmap(pivot, ...) on panel ax: what it draws.
HeatmapOf(pivot, ax) == [kind |-> "heatmap", ax |-> ax, data |-> pivot]

\* The opening of plot_heatmap, plot_density_phase_diagram and
\* plot_temptation_phase_diagram: the filtered rows are pivoted, which
\* raises ValueError on duplicate cells, and then the figure is created.
PivotThenFigure(fn, rows, index, columns) ==
    /\ Calling(fn)
    /\ IF PivotDuplicates(rows, index, columns)
       THEN /\ Abort(DuplicateEntries)
            /\ UNCHANGED <<figs, drawn>>
       ELSE /\ figs' = NewFigure(Head(calls))
            /\ drawn' = <<>>
            /\ pc' = fn \o ".heatmap"
            /\ err' = err
    /\ UNCHANGED <<script, dirs, csv, df, loads, calls, todo, thresholds, files>>

\* Their sns.heatmap(pivot, ...): raises ValueError on a table without
\* cells (the minimum of a zero-size array).
HeatmapThenSave(fn, rows, index, columns) ==
    /\ pc = fn \o ".heatmap"
    /\ IF rows = <<>>
       THEN /\ Abort(ZeroSizeArray)
            /\ drawn' = drawn
       ELSE /\ drawn' = Append(drawn,
                   HeatmapOf(Pivot(rows, index, columns, Head(calls).metric), 1))
            /\ pc' = "savefig"
            /\ err' = err
    /\ UNCHANGED <<script, dirs, csv, df, loads, calls, todo, thresholds,
                   figs, files>>

\* The rows a call keeps: df[df[column] == its fixed parameter value].
Filtered_whole_table(column) == df

Filtered(column) ==
    IF calls = <<>> THEN <<>> ELSE Where1(df, column, Head(calls).arg)

\* Lines 59-64 of plot_heatmap, then line 66.
PlotHeatmap ==
    PivotThenFigure("plot_heatmap", Filtered("temptation"),
                    "defectorRatio", "density")

\* Lines 67-68.
HeatmapDraw ==
    HeatmapThenSave("plot_heatmap", Filtered("temptation"),
                    "defectorRatio", "density")

\* np.meshgrid(X, Y): two grids of Len(Y) rows and Len(X) columns.
meshgrid(X, Y) ==
    [X |-> [i \in 1..Len(Y) |-> [j \in 1..Len(X) |-> X[j]]],
     Y |-> [i \in 1..Len(Y) |-> [j \in 1..Len(X) |-> Y[i]]]]

\* Lines 79-92 of plot_3d_surface: the axes from unique() in row order, the
\* heights from the pivot table.
SurfaceOf(metric, t_value) ==
    LET data  == Where1(df, "temptation", t_value)
        X     == Unique(Column(data, "density"))
        Y     == Unique(Column(data, "defectorRatio"))
        XY    == meshgrid(X, Y)
        pivot == Pivot(data, "defectorRatio", "density", metric)
    IN  [kind |-> "surface", X |-> XY.X, Y |-> XY.Y, Z |-> pivot.values]

\* Lines 79-96: the pivot raises ValueError on duplicate cells; then the
\* figure.
Plot3dSurface ==
    /\ Calling("plot_3d_surface")
    /\ LET data == Where1(df, "temptation", Head(calls).arg)
       IN  IF PivotDuplicates(data, "defectorRatio", "density")
           THEN /\ Abort(DuplicateEntries)
                /\ UNCHANGED <<figs, drawn>>
           ELSE /\ figs' = NewFigure(Head(calls))
                /\ drawn' = <<>>
                /\ pc' = "plot_3d_surface.surface"
                /\ err' = err
    /\ UNCHANGED <<script, dirs, csv, df, loads, calls, todo, thresholds, files>>

\* Lines 99-103: plot_surface and contour; contour raises TypeError on a
\* grid smaller than 2 x 2.
SurfaceDraw ==
    /\ pc = "plot_3d_surface.surface"
    /\ LET surf == SurfaceOf(Head(calls).metric, Head(calls).arg)
       IN  IF Len(surf.Z) < 2 \/ Len(surf.Z[1]) < 2
           THEN /\ Abort(ContourTooSmall)
                /\ drawn' = drawn
           ELSE /\ drawn' = Append(drawn, surf)
                /\ pc' = "savefig"
                /\ err' = err
    /\ UNCHANGED <<script, dirs, csv, df, loads, calls, todo, thresholds,
                   figs, files>>

-----------------------------------------------------------------------------
(* plot_phase_diagrams.py                                                  *)

\* Lines 59-124: the four density diagrams for each t, then the four
\* temptation diagrams for each n.
PhaseDiagramsCalls ==
    LET ms == metrics(PhaseDiagrams)
        ts == <<11, 13, 15>>
        ns == <<40, 60, 80>>
    IN  Flatten([i \in 1..Len(ts) |->
                   [j \in 1..Len(ms) |->
                       Call("plot_density_phase_diagram", ms[j], ts[i])]])
        \o Flatten([i \in 1..Len(ns) |->
                   [j \in 1..Len(ms) |->
                       Call("plot_temptation_phase_diagram", ms[j], ns[i])]])

\* Lines 16-24 of plot_density_phase_diagram.
PlotDensityPhaseDiagram ==
    PivotThenFigure("plot_density_phase_diagram", Filtered("temptation"),
                    "defectorRatio", "density")

\* Lines 25-29.
DensityPhaseDiagramDraw ==
    HeatmapThenSave("plot_density_phase_diagram", Filtered("temptation"),
                    "defectorRatio", "density")

\* Lines 38-46 of plot_temptation_phase_diagram: the rows of one agent
\* count, pivoted by defector ratio and temptation.
PlotTemptationPhaseDiagram ==
    PivotThenFigure("plot_temptation_phase_diagram", Filtered("agentCount"),
                    "defectorRatio", "temptation")

\* Lines 47-51.
TemptationPhaseDiagramDraw ==
    HeatmapThenSave("plot_temptation_phase_diagram", Filtered("agentCount"),
                    "defectorRatio", "temptation")

-----------------------------------------------------------------------------
(* plot_phase_transitions.py                                               *)

\* Lines 79-81: per metric, the heatmaps and the curves.
PhaseTransitionsCalls ==
    LET ms == metrics(PhaseTransitions)
    IN  Flatten([i \in 1..Len(ms) |->
            <<Call("plot_phase_diagram_heatmaps", ms[i], 0),
              Call("plot_metric_vs_defector_ratio", ms[i], 17)>>])

\* plt.subplots(2, 3): the panels of the flattened grid.
GridRows == 2
GridColumns == 3
NumAxes == GridRows * GridColumns

\* T_values = sorted(df['temptation'].unique())
T_values == Sorted(Range(Column(df, "temptation")))

\* Lines 19-22 of plot_phase_diagram_heatmaps: the figure of six panels and
\* the temptation values.
PlotPhaseDiagramHeatmaps ==
    /\ Calling("plot_phase_diagram_heatmaps")
    /\ figs' = NewFigure(Head(calls))
    /\ drawn' = <<>>
    /\ todo' = T_values
    /\ pc' = IF T_values = <<>> THEN "plot_phase_diagram_heatmaps.delaxes"
             ELSE "plot_phase_diagram_heatmaps.loop"
    /\ UNCHANGED <<script, dirs, csv, df, loads, calls, thresholds, files, err>>

\* One pass of the loop (lines 24-37): the pivot of the rows of T, which
\* raises ValueError on duplicate cells, drawn on axes[i]; axes[i] raises
\* IndexError past the last panel.
PhaseDiagramHeatmapsPanel ==
    /\ pc = "plot_phase_diagram_heatmaps.loop"
    /\ todo # <<>>
    /\ LET T    == Head(todo)
           i    == Len(T_values) - Len(todo) + 1
           data == Where1(df, "temptation", T)
       IN  IF PivotDuplicates(data, "defector_ratio", "density")
           THEN /\ Abort(DuplicateEntries)
                /\ UNCHANGED <<drawn, todo>>
           ELSE IF i > NumAxes
           THEN /\ Abort(IndexOutOfBounds)
                /\ UNCHANGED <<drawn, todo>>
           ELSE /\ drawn' = drawn
                     \o << HeatmapOf(Pivot(data, "defector_ratio", "density",
                                           Head(calls).metric), i),
                           [kind |-> "title", ax |-> i, T |-> T] >>
                /\ todo' = Tail(todo)
                /\ pc' = IF Tail(todo) = <<>>
                         THEN "plot_phase_diagram_heatmaps.delaxes" ELSE pc
                /\ err' = err
    /\ UNCHANGED <<script, dirs, csv, df, loads, calls, thresholds, figs, files>>

\* Lines 39-41: the panels past the last temptation value are removed.
PhaseDiagramHeatmapsDelaxes ==
    /\ pc = "plot_phase_diagram_heatmaps.delaxes"
    /\ drawn' = drawn \o
          (IF NumAxes > Len(T_values)
           THEN [k \in 1..(NumAxes - Len(T_values)) |->
                    [kind |-> "delaxes", ax |-> Len(T_values) + k]]
           ELSE <<>>)
    /\ pc' = "savefig"
    /\ UNCHANGED <<script, dirs, csv, df, loads, calls, todo, thresholds,
                   figs, files, err>>

\* densities = [0.2, 0.5, 0.8], the curves both JSON scripts draw.
densities == <<2, 5, 8>>

\* df[(df['temptation'] == T) & (np.abs(df['density'] - density) < 0.01)]
\* plotted against the defector ratio; on densities kept in tenths the
\* tolerance admits the density itself only.
CurveAtDensity(T, density, metric) ==
    LET data == Where2(df, "temptation", T, "density", density)
    IN  [kind |-> "line", of |-> density,
         x |-> Column(data, "defector_ratio"), y |-> Values(data, metric)]

\* plot_metric_vs_defector_ratio (lines 50-67): the figure and one curve
\* per selected density at T = 1.7.
PlotMetricVsDefectorRatio ==
    /\ Calling("plot_metric_vs_defector_ratio")
    /\ figs' = NewFigure(Head(calls))
    /\ drawn' = [k \in 1..Len(densities) |->
                    CurveAtDensity(Head(calls).arg, densities[k], Head(calls).metric)]
    /\ pc' = "savefig"
    /\ UNCHANGED <<script, dirs, csv, df, loads, calls, todo, thresholds,
                   files, err>>

-----------------------------------------------------------------------------
(* plot_combined_transitions.py                                            *)

\* Lines 65-69: per metric, one combined view for each selected T.
CombinedTransitionsCalls ==
    LET ms == metrics(CombinedTransitions)
        Ts == <<11, 17, 20>>
    IN  Flatten([i \in 1..Len(ms) |->
                   [j \in 1..Len(Ts) |-> Call("plot_combined_view", ms[i], Ts[j])]])

\* Line 19 of plot_combined_view: the figure of two panels, created before
\* the pivot.
PlotCombinedView ==
    /\ Calling("plot_combined_view")
    /\ figs' = NewFigure(Head(calls))
    /\ drawn' = <<>>
    /\ pc' = "plot_combined_view.pivot"
    /\ UNCHANGED <<script, dirs, csv, df, loads, calls, todo, thresholds,
                   files, err>>

\* Lines 22-51: the pivot (ValueError on duplicate cells), its heatmap on
\* the left panel (ValueError on a table without cells) and the curves of
\* the selected densities on the right one.
CombinedViewDraw ==
    /\ pc = "plot_combined_view.pivot"
    /\ LET data == Filtered("temptation")
       IN  IF PivotDuplicates(data, "defector_ratio", "density")
           THEN /\ Abort(DuplicateEntries)
                /\ drawn' = drawn
           ELSE IF data = <<>>
           THEN /\ Abort(ZeroSizeArray)
                /\ drawn' = drawn
           ELSE /\ drawn' =
                     << HeatmapOf(Pivot(data, "defector_ratio", "density",
                                        Head(calls).metric), 1) >>
                     \o [k \in 1..Len(densities) |->
                            CurveAtDensity(Head(calls).arg, densities[k],
                                           Head(calls).metric)]
                /\ pc' = "savefig"
                /\ err' = err
    /\ UNCHANGED <<script, dirs, csv, df, loads, calls, todo, thresholds,
                   figs, files>>

-----------------------------------------------------------------------------
(* Input tables.                                                           *)

\* A row of phase_diagram_results.csv.  The four metric columns are set
\* from one value v (in tenths): the two percolation probabilities differ,
\* so the two threshold figures of a run scan different series.
CsvRow(d, r, t, n, v) ==
    [density |-> d, defectorRatio |-> r, temptation |-> t, agentCount |-> n,
     defectorPercolationProb |-> v, geometricPercolationProb |-> 10 - v,
     avgLargestClusterFrac |-> v, avgCompliance |-> 10 - v]

\* Every table of at most n rows drawn from a set of rows, in any order
\* and with repetitions.
Tables(rows, n) == UNION {[1..k -> rows] : k \in 0..n}

\* Rows for plot_threshold_curves: two densities, two defector ratios and
\* two values at temptation 1.7, and two rows of another temptation whose
\* value is above the threshold.
ThresholdRows ==
    {CsvRow(d, r, ThresholdTemptation, 40, v) :
        d \in {2, 5}, r \in {1, FixedDefectorRatio}, v \in {0, 8}}
    \cup {CsvRow(2, r, 13, 40, 8) : r \in {1, FixedDefectorRatio}}

InitRun(s, dirss, tables, callss) ==
    /\ script = s
    /\ dirs \in dirss
    /\ csv \in tables
    /\ df = <<>>
    /\ loads = 0
    /\ calls \in callss
    /\ pc = "mkdir"
    /\ todo = <<>>
    /\ thresholds = <<>>
    /\ drawn = <<>>
    /\ figs = <<>>
    /\ files = <<>>
    /\ err = ""

\* A row of phase_diagram_results.json ('results'), set from one value v.
JsonRow(d, r, t, v) ==
    [density |-> d, defector_ratio |-> r, temptation |-> t,
     avg_compliance |-> 10 - v, defector_percolation_prob |-> v,
     geometric_percolation_prob |-> 10 - v, avg_largest_cluster_frac |-> v]

\* Rows for plot_phase_diagrams.py: two densities at each of four
\* (temptation, agent count) pairs; two of the pairs share an agent count.
PhaseDiagramRows ==
    {CsvRow(d, 1, tn[1], tn[2], 8) :
        d \in {2, 5}, tn \in {<<11, 40>>, <<13, 60>>, <<15, 80>>, <<13, 40>>}}

\* Rows for plot_combined_transitions.py: two densities at each selected T.
CombinedRows == {JsonRow(d, 1, t, 8) : d \in {2, 5}, t \in {11, 17, 20}}

\* Rows for plot_phase_transitions.py: two densities at two temptations.
TransitionRows == {JsonRow(d, 1, t, 8) : d \in {2, 5}, t \in {11, 17}}

Reverse(s) == [i \in 1..Len(s) |-> s[Len(s) + 1 - i]]

\* Tables of one row per temptation value, for every set of at most
\* MaxTemptations values, in ascending and in descending row order.
TemptationTables ==
    UNION {LET ts  == Sorted({10 + k : k \in S})
               asc == [i \in 1..Len(ts) |-> JsonRow(2, 1, ts[i], 8)]
           IN  {asc, Reverse(asc)} : S \in SUBSET (1..MaxTemptations)}

\* The tables each script is run on.
Inputs(s) ==
    CASE s = ThresholdAnalysis     -> Tables(ThresholdRows, MaxRows)
      [] s = ImprovedVisualization -> Tables(ThresholdRows, MaxRows)
      [] s = PhaseDiagrams         -> Tables(PhaseDiagramRows, MaxRows)
      [] s = PhaseTransitions      -> Tables(TransitionRows, MaxRows)
                                      \cup TemptationTables
      [] s = CombinedTransitions   -> Tables(CombinedRows, MaxRows)

\* The calls of each script's main loop.
MainCalls(s) ==
    CASE s = ThresholdAnalysis     -> ThresholdAnalysisCalls
      [] s = ImprovedVisualization -> ImprovedVisualizationCalls
      [] s = PhaseDiagrams         -> PhaseDiagramsCalls
      [] s = PhaseTransitions      -> PhaseTransitionsCalls
      [] s = CombinedTransitions   -> CombinedTransitionsCalls

ModuleLevel == Mkdir \/ ReadTable \/ Finish \/ Savefig \/ Close

ThresholdAnalysisSteps ==
    \/ PlotThresholdCurves \/ ThresholdCurvesRatio
    \/ PlotDensityCurves \/ DensityCurvesTemptation
    \/ PlotPhaseSpace \/ PhaseSpacePivot

ImprovedVisualizationSteps ==
    \/ PlotSubplotsByGroups \/ SubplotsGroup
    \/ PlotHeatmap \/ HeatmapDraw
    \/ Plot3dSurface \/ SurfaceDraw

PhaseDiagramsSteps ==
    \/ PlotDensityPhaseDiagram \/ DensityPhaseDiagramDraw
    \/ PlotTemptationPhaseDiagram \/ TemptationPhaseDiagramDraw

PhaseTransitionsSteps ==
    \/ PlotPhaseDiagramHeatmaps \/ PhaseDiagramHeatmapsPanel
    \/ PhaseDiagramHeatmapsDelaxes \/ PlotMetricVsDefectorRatio

CombinedTransitionsSteps == PlotCombinedView \/ CombinedViewDraw

-----------------------------------------------------------------------------
(* A run of any of the five scripts, in a working directory with or        *)
(* without its output directory.                                           *)

Init ==
    \E s \in Scripts :
        InitRun(s, SUBSET {output_dir(s)}, Inputs(s), {MainCalls(s)})

Next ==
    \/ ModuleLevel
    \/ ThresholdAnalysisSteps
    \/ ImprovedVisualizationSteps
    \/ PhaseDiagramsSteps
    \/ PhaseTransitionsSteps
    \/ CombinedTransitionsSteps

Spec == Init /\ [][Next]_vars

-----------------------------------------------------------------------------
(* plot_threshold_curves on its own: one call on every table of at most    *)
(* MaxRows rows.                                                           *)

CallsOf(s, fns) == {<<c>> : c \in {c \in Range(MainCalls(s)) : c.fn \in fns}}

InitThreshold ==
    InitRun(ThresholdAnalysis, {{}}, Inputs(ThresholdAnalysis),
            CallsOf(ThresholdAnalysis, {"plot_threshold_curves"}))

NextThreshold == ModuleLevel \/ PlotThresholdCurves \/ ThresholdCurvesRatio

SpecThreshold == InitThreshold /\ [][NextThreshold]_vars

-----------------------------------------------------------------------------
(* plot_phase_diagram_heatmaps on its own: one call on every table of one  *)
(* row per temptation value.                                               *)

InitHeatmaps ==
    InitRun(PhaseTransitions, {{}}, TemptationTables,
            CallsOf(PhaseTransitions, {"plot_phase_diagram_heatmaps"}))

NextHeatmaps ==
    \/ ModuleLevel
    \/ PlotPhaseDiagramHeatmaps
    \/ PhaseDiagramHeatmapsPanel
    \/ PhaseDiagramHeatmapsDelaxes

SpecHeatmaps == InitHeatmaps /\ [][NextHeatmaps]_vars

-----------------------------------------------------------------------------
(* Each function that pivots the table, on its own: one call, for one      *)
(* metric, on every table of its script.                                   *)

PivotingFunctions ==
    {"plot_phase_space", "plot_heatmap", "plot_3d_surface",
     "plot_density_phase_diagram", "plot_temptation_phase_diagram",
     "plot_phase_diagram_heatmaps", "plot_combined_view"}

InitPivot ==
    \E s \in Scripts :
        InitRun(s, {{}}, Inputs(s),
                {cs \in CallsOf(s, PivotingFunctions) :
                    cs[1].metric = metrics(s)[1].metric})

NextPivot ==
    \/ ModuleLevel
    \/ PlotPhaseSpace \/ PhaseSpacePivot
    \/ PlotHeatmap \/ HeatmapDraw
    \/ Plot3dSurface \/ SurfaceDraw
    \/ PhaseDiagramsSteps
    \/ PlotPhaseDiagramHeatmaps \/ PhaseDiagramHeatmapsPanel
    \/ PhaseDiagramHeatmapsDelaxes
    \/ CombinedTransitionsSteps

SpecPivot == InitPivot /\ [][NextPivot]_vars

-----------------------------------------------------------------------------
(* Properties of the threshold scan (SpecThreshold).                       *)

\* Where the threshold lines of series `of` stand.
Lines(of) == {drawn[k].x : k \in {k \in Events("axvline") : drawn[k].of = of}}

\* Series s is at or above the threshold at index i.
Reaches(s, i) == s.v[i] * Half.den >= Half.num * s.den

Ascending(x) == \A i, j \in 1..Len(x) : i < j => x[i] <= x[j]

\* plot_threshold_curves calls find_threshold(x, y_smooth, threshold) for
\* each curve it draws: the arguments of the call are the curve's x and y.

\* C1: whenever some value of smooth(y) reaches the threshold,
\* find_threshold(x, y, threshold) returns x[i] for the smallest index i
\* with smooth(y)[i] >= threshold: every earlier smoothed value is below
\* it.  The value returned is the one plot_threshold_curves marks and
\* appends to thresholds.
C1_FindThresholdReturnsFirstCrossing ==
    DrawnBy("plot_threshold_curves") =>
        \A k \in Events("line") :
            LET x == drawn[k].x
                s == gaussian_filter1d(drawn[k].y)
            IN  \A i \in 1..Len(x) :
                    (Reaches(s, i) /\ \A j \in 1..(i - 1) : ~Reaches(s, j))
                    => /\ Lines(drawn[k].of) = {x[i]}
                       /\ <<drawn[k].of, x[i]>> \in Range(thresholds)

\* A call whose first crossing is not at the first index, and whose series
\* crosses again at a different x later.
C1_Witness ==
    /\ DrawnBy("plot_threshold_curves")
    /\ \E k \in Events("line") :
           LET x == drawn[k].x
               s == gaussian_filter1d(drawn[k].y)
           IN  \E i, l \in 1..Len(x) :
                   /\ 1 < i /\ i < l
                   /\ Reaches(s, i) /\ Reaches(s, l) /\ x[l] # x[i]
                   /\ \A j \in 1..(i - 1) : ~Reaches(s, j)
                   /\ Lines(drawn[k].of) = {x[i]}

\* C2: the density series the scan runs over is in ascending order, and the
\* density marked is the lowest density of the series at which the
\* smoothed metric is at or above the threshold.
C2_ScanRunsOverAscendingDensities ==
    DrawnBy("plot_threshold_curves") =>
        \A k \in Events("line") :
            LET x == drawn[k].x
                s == gaussian_filter1d(drawn[k].y)
                reached == {x[i] : i \in {i \in 1..Len(x) : Reaches(s, i)}}
            IN  /\ Ascending(x)
                /\ \A d \in Lines(drawn[k].of) : \A e \in reached : d <= e

\* C3: when no value of the smoothed series reaches the threshold,
\* find_threshold returns None: plot_threshold_curves draws no line and no
\* marker for that ratio and appends nothing for it.  It raises nothing,
\* and by the time the figure is written every defector ratio of the table
\* has had its curve drawn.
C3_NoCrossingReturnsNone ==
    DrawnBy("plot_threshold_curves") =>
        /\ pc # "aborted"
        /\ \A k \in Events("line") :
               LET s == gaussian_filter1d(drawn[k].y)
               IN  (\A i \in 1..Len(s.v) : ~Reaches(s, i))
                   => /\ \A m \in Events("axvline") \cup Events("marker") :
                             drawn[m].of # drawn[k].of
                      /\ \A i \in 1..Len(thresholds) :
                             thresholds[i][1] # drawn[k].of
        /\ pc \in {"close", "main", "done"}
           => /\ {drawn[k].of : k \in Events("line")}
                    = Range(Column(df, "defectorRatio"))
              /\ files = <<PathJoin(output_dir(script), filename(figs[1].by))>>

\* The image is written after a ratio without a crossing was followed by a
\* ratio with one.
C3_Witness ==
    /\ DrawnBy("plot_threshold_curves")
    /\ pc = "close"
    /\ Len(files) = 1
    /\ \E k, m \in Events("line") :
           /\ k < m
           /\ Len(drawn[k].x) > 0
           /\ \A i \in 1..Len(drawn[k].x) : ~Reaches(gaussian_filter1d(drawn[k].y), i)
           /\ Lines(drawn[k].of) = {}
           /\ Lines(drawn[m].of) # {}

\* C4: the density plot_threshold_curves marks for a series is the first
\* density at which the curve it draws (the metric after one pass of
\* smoothing) is at or above the threshold: the density the inline scan of
\* plot_subplots_by_groups marks for the same series.
C4_MarksFirstCrossingOfDrawnCurve ==
    DrawnBy("plot_threshold_curves") =>
        \A k \in Events("line") :
            LET inline == first_crossing(drawn[k].x, drawn[k].y)
            IN  Lines(drawn[k].of) = Range(inline)

-----------------------------------------------------------------------------
(* Properties of a script's run.                                           *)

OpenFigures == {k \in 1..Len(figs) : figs[k].open}

\* What holds of the figures in every run, aborted or not: the table is
\* read once and before any figure, at most one figure is open, a figure
\* is written at most once and closed only after it was written.
FigureLifecycle ==
    /\ loads <= 1
    /\ figs # <<>> => loads = 1
    /\ Cardinality(OpenFigures) <= 1
    /\ OpenFigures \subseteq {Len(figs)}
    /\ \A k \in 1..Len(figs) :
           /\ figs[k].saved <= 1
           /\ ~figs[k].open => figs[k].saved = 1
    /\ Len(files) = Cardinality({k \in 1..Len(figs) : figs[k].saved = 1})

\* C5: the run is a linear sequence: the table is loaded once, before any
\* figure; a figure is closed before the next is created, so at most one
\* is open; and every figure created is saved exactly once: when the
\* script has ended, each of its figures has been written once and closed.
C5_EveryFigureSavedExactlyOnce ==
    /\ FigureLifecycle
    /\ pc \in {"done", "aborted"}
       => \A k \in 1..Len(figs) : figs[k].saved = 1 /\ ~figs[k].open

\* The directory names the claim lists.
FixedDirectory ==
    [s \in Scripts |->
        CASE s = PhaseDiagrams         -> "phase_diagrams"
          [] s = ThresholdAnalysis     -> "threshold_analysis"
          [] s = ImprovedVisualization -> "improved_visualizations"
          [] s = PhaseTransitions      -> "phase_transition_plots"
          [] s = CombinedTransitions   -> "combined_phase_plots"]

\* C6: every image a script writes lies directly inside the script's own
\* fixed output directory, which exists by then; and mkdir succeeds
\* whether or not the directory existed: its step always goes on to read
\* the table, with the directory in place.
C6_ImagesInsideOutputDirectory ==
    /\ [](\A i \in 1..Len(files) :
              /\ Len(files[i]) = 2
              /\ files[i][1] = FixedDirectory[script]
              /\ <<FixedDirectory[script]>> \in dirs)
    /\ [][pc = "mkdir" => /\ pc' = "read"
                          /\ <<FixedDirectory[script]>> \in dirs']_vars

\* A run that found its output directory in place has written its images
\* and ended.
C6_Witness ==
    /\ pc = "done"
    /\ Len(files) >= 8
    /\ \A i \in 1..Len(files) : files[i][1] = FixedDirectory[script]

\* C10: within one run no output path is written twice.
C10_NoPathWrittenTwice ==
    \A i, j \in 1..Len(files) : i < j => files[i] # files[j]

\* A complete run of plot_phase_diagrams.py: 24 images.
C10_Witness ==
    /\ pc = "done"
    /\ script = PhaseDiagrams
    /\ Len(files) = Len(PhaseDiagramsCalls)
    /\ Len(files) > 20

-----------------------------------------------------------------------------
(* Properties of plot_phase_diagram_heatmaps (SpecHeatmaps).               *)

\* The panels that hold a heatmap, and the panels removed.
Panels(kind) == {drawn[k].ax : k \in Events(kind)}

\* C7: plot_phase_diagram_heatmaps never raises, whatever the number of
\* distinct temptation values, and the figure it writes holds one heatmap
\* per distinct temptation value of the table, in ascending order of
\* temptation, every other panel of the 2 x 3 grid removed.
C7_OnePanelPerTemptationValue ==
    DrawnBy("plot_phase_diagram_heatmaps") =>
        /\ pc # "aborted"
        /\ pc \in {"savefig", "close", "main", "done"} =>
              LET Ts == Range(Column(df, "temptation"))
                  n  == Cardinality(Ts)
              IN  /\ Panels("heatmap") = 1..n
                  /\ Cardinality(Events("heatmap")) = n
                  /\ {drawn[k].T : k \in Events("title")} = Ts
                  /\ \A k, m \in Events("title") :
                         drawn[k].ax < drawn[m].ax => drawn[k].T < drawn[m].T
                  /\ Panels("delaxes") = (n + 1)..NumAxes

-----------------------------------------------------------------------------
(* Properties of the pivots (SpecPivot).                                   *)

\* The value of `column` in the rows with the given density and defector
\* ratio, NaN when there is no such row.
CellAt(rows, density, ratio, column) ==
    LET hit == {k \in 1..Len(rows) :
                   rows[k].density = density /\ rows[k].defectorRatio = ratio}
    IN  IF hit = {} THEN {NaN} ELSE {<<rows[k][column]>> : k \in hit}

\* C8: the surface of plot_3d_surface is aligned with its axes: the height
\* Z[i][j] plotted at (X[i][j], Y[i][j]) is the metric value of the row
\* whose density is X[i][j] and whose defectorRatio is Y[i][j].
C8_SurfaceAlignedWithAxes ==
    DrawnBy("plot_3d_surface") =>
        \A k \in Events("surface") :
            LET e    == drawn[k]
                rows == Where1(df, "temptation", figs[Len(figs)].by.arg)
            IN  \A i \in 1..Len(e.Z) : \A j \in 1..Len(e.Z[i]) :
                    e.Z[i][j] \in CellAt(rows, e.X[i][j], e.Y[i][j],
                                         figs[Len(figs)].by.metric)

\* The name of the defector ratio column in the script's table.
RatioColumn ==
    IF script \in {PhaseTransitions, CombinedTransitions}
    THEN "defector_ratio" ELSE "defectorRatio"

\* At most one row of the input per combination of three columns.
OneRowPer(c1, c2, c3) ==
    \A i, j \in 1..Len(csv) :
        i < j => \/ csv[i][c1] # csv[j][c1]
                 \/ csv[i][c2] # csv[j][c2]
                 \/ csv[i][c3] # csv[j][c3]

\* A pivot has aborted on duplicate cells.
AbortedOnDuplicates == pc = "aborted" /\ err = DuplicateEntries

====
